---- MODULE Spec2Model ----
(***************************************************************************)
(* Model of src/main.py: the GeminiChatAgent conversation session and the  *)
(* command-line loop that drives it.                                       *)
(*                                                                         *)
(* Strings are sequences of tokens (a token is a character or a fixed      *)
(* literal chunk), so that concatenation is \o.  Python values that the    *)
(* code probes with hasattr / truthiness are tagged records: the tag t     *)
(* says whether the attribute is missing ("absent"), None ("none"), a str, *)
(* a list, or an object.                                                   *)
(***************************************************************************)
EXTENDS Integers, Sequences, FiniteSets, TLC

(* ------------------------------ bounds --------------------------------- *)
MaxTurns == 6          \* a line is submitted only while a whole exchange still fits in this many turns
MaxParts == 2          \* fragments in the first candidate's content

(* --------------------------- Python values ----------------------------- *)
Absent == [t |-> "absent"]
None == [t |-> "none"]
Str(s) == [t |-> "str", v |-> s]
List(s) == [t |-> "list", v |-> s]

\* hasattr(obj, attr): the attribute is there, whatever its value
HasAttr(obj, attr) == obj[attr].t # "absent"

\* Python truthiness: None, "" and [] are falsy, any other object is truthy
Truthy(val) ==
    CASE val.t = "none" -> FALSE
      [] val.t = "str" -> val.v # <<>>
      [] val.t = "list" -> val.v # <<>>
      [] OTHER -> TRUE

(* ----------------------------- exceptions ------------------------------ *)
NoExc == [t |-> "noexc"]
Exc(cls, msg) == [t |-> "exc", cls |-> cls, msg |-> msg]

\* the classes derived from Exception (KeyboardInterrupt, SystemExit are not)
ExceptionClasses == {"Exception", "TypeError", "ValueError", "ServerError", "ConnectionError"}

\* `except Exception as e` (line 146) matches e iff its class derives from Exception
\* (faulty variant: an except clause that names one provider error class only)
ExceptExceptionMatches_Narrow(e) == e.cls = "ServerError"
ExceptExceptionMatches(e) == e.cls \in ExceptionClasses

\* str + None at line 134: TypeError
ConcatTypeError(val) == Exc("TypeError", <<"can only concatenate str (not \"NoneType\") to str">>)

(* ------------------------ constants of the agent ----------------------- *)
wiki == <<"https://pd2reawakening.com/wiki/index.php?title=Main_Page">>

initial_instructions ==
    <<"\n", " ", "[INSTRUCTIONS FOR ASSISTANT] ... You can access PD2 wiki information at ">>
    \o wiki
    \o <<". ... Please respond to the following message from the user.", "[END INSTRUCTIONS]", "\n", " ">>

acknowledgement ==
    <<"I understand. I'm a Project Diablo 2 assistant and will help with any questions about the game, characters, builds, or items. What would you like to know?">>

NoValidResponseMsg == <<"No valid response received from Gemini API">>
NoContentMsg == <<"No content in response candidate">>
NoPartsMsg == <<"No parts in content">>
ErrorPrefix == <<"Error generating response: ">>

(* ------------------------- transcript helpers -------------------------- *)
UserTurn(message) == [role |-> "user", parts |-> <<[text |-> message]>>]
ModelTurn(message) == [role |-> "model", parts |-> <<[text |-> message]>>]

\* (faulty variant: insert(0, ...) instead of append)
add_user_message_Prepend(history, message) == <<UserTurn(message)>> \o history
add_user_message(history, message) == Append(history, UserTurn(message))

\* (faulty variant: overwrites the last turn instead of appending)
add_model_message_Replace(history, message) ==
    IF history = <<>> THEN <<ModelTurn(message)>>
    ELSE [history EXCEPT ![Len(history)] = ModelTurn(message)]
add_model_message(history, message) == Append(history, ModelTurn(message))

(* ------------------------------ the CLI -------------------------------- *)
Whitespace == {" ", "\t", "\n"}

RECURSIVE LStrip(_)
LStrip(s) == IF s # <<>> /\ Head(s) \in Whitespace THEN LStrip(Tail(s)) ELSE s

RECURSIVE RStrip(_)
RStrip(s) ==
    IF s # <<>> /\ s[Len(s)] \in Whitespace THEN RStrip(SubSeq(s, 1, Len(s) - 1)) ELSE s

\* str.strip()
Strip(s) == RStrip(LStrip(s))

LowerChar(c) ==
    CASE c = "B" -> "b" [] c = "Y" -> "y" [] c = "E" -> "e" [] c = "Q" -> "q"
      [] c = "U" -> "u" [] c = "I" -> "i" [] c = "T" -> "t" [] c = "X" -> "x"
      [] c = "A" -> "a"
      [] OTHER -> c

\* str.lower()
Lower(s) == [i \in 1..Len(s) |-> LowerChar(s[i])]

ExitCommands == {<<"e", "x", "i", "t">>, <<"q", "u", "i", "t">>, <<"b", "y", "e">>}

\* the lines a user types at the prompt
RawInputs ==
    { <<"a">>, <<" ", "b", " ">>, <<" ", "Q", "u", "i", "t", " ">> }

(* ------------------------ the Completion Provider ---------------------- *)
TextChars == {"A", "B"}

\* a fragment: no text attribute, text None, or a one-character text
PartValues ==
    { [t |-> "obj", text |-> x] : x \in {Absent, None} \cup { Str(<<c>>) : c \in TextChars } }

PartLists == UNION { [1..n -> PartValues] : n \in 1..MaxParts }

PartsValues == {Absent, None, List(<<>>)} \cup { List(p) : p \in PartLists }

ContentValues == {Absent, None} \cup { [t |-> "obj", parts |-> p] : p \in PartsValues }

Meta(id) == [t |-> "meta", id |-> id]
MetadataValues == {Absent, None, Meta("m1")}

FirstCandidates ==
    { [t |-> "obj", content |-> c, url_context_metadata |-> m] :
        c \in ContentValues, m \in MetadataValues }

\* what a candidate after the first looks like
OtherCandidate ==
    [t |-> "obj",
     content |-> [t |-> "obj", parts |-> List(<<[t |-> "obj", text |-> Str(<<"B">>)]>>)],
     url_context_metadata |-> Meta("m2")]

\* one candidate, or a first candidate without metadata followed by another candidate
CandidateLists ==
    { <<c>> : c \in FirstCandidates }
    \cup { <<c, OtherCandidate>> : c \in { d \in FirstCandidates : d.url_context_metadata = Absent } }

Responses ==
    {None}
    \cup { [t |-> "obj", candidates |-> c] : c \in {Absent, None, List(<<>>)} }
    \cup { [t |-> "obj", candidates |-> List(cs)] : cs \in CandidateLists }

ProviderExceptions ==
    { Exc("ServerError", <<"503 UNAVAILABLE">>), Exc("ConnectionError", <<"timed out">>) }

Pending == [t |-> "pending"]
Returned(response) == [t |-> "return", response |-> response]
Raised(e) == [t |-> "raise", exc |-> e]

(* --------------------------- generate_response ------------------------- *)
\* str(e)
StrOfExc(e) == e.msg

\* str(candidate.url_context_metadata) inside the f-string of line 142
StrOfMeta(m) == <<"url_metadata=", m.id>>

\* f"\n\n[URL Sources: {candidate.url_context_metadata}]"
CitationBlock(m) == <<"\n", "\n", "[URL Sources: ">> \o StrOfMeta(m) \o <<"]">>

\* how the body of the try block ends: by a return statement or by a raise
Return(history, line, text) ==
    [history |-> history, line |-> line, ret |-> Str(text), exc |-> NoExc]
Raise(history, e) ==
    [history |-> history, line |-> 0, ret |-> None, exc |-> e]

\* (faulty variant: response_text = part.text + response_text)
RECURSIVE ExtractText_Reversed(_, _, _)
ExtractText_Reversed(parts, i, response_text) ==
    IF i > Len(parts) THEN [exc |-> NoExc, text |-> response_text]
    ELSE IF HasAttr(parts[i], "text")
         THEN IF parts[i].text.t = "str"
              THEN ExtractText_Reversed(parts, i + 1, parts[i].text.v \o response_text)
              ELSE [exc |-> ConcatTypeError(parts[i].text), text |-> response_text]
         ELSE ExtractText_Reversed(parts, i + 1, response_text)

\* lines 131-134: response_text = ""; for part in parts: if hasattr(part, 'text'): response_text += part.text
RECURSIVE ExtractText(_, _, _)
ExtractText(parts, i, response_text) ==
    IF i > Len(parts) THEN [exc |-> NoExc, text |-> response_text]
    ELSE IF HasAttr(parts[i], "text")
         THEN IF parts[i].text.t = "str"
              THEN ExtractText(parts, i + 1, response_text \o parts[i].text.v)
              ELSE [exc |-> ConcatTypeError(parts[i].text), text |-> response_text]
         ELSE ExtractText(parts, i + 1, response_text)

\* lines 139-142: the citation block is added to the returned text only
WithCitation(candidate, response_text) ==
    IF HasAttr(candidate, "url_context_metadata") /\ Truthy(candidate.url_context_metadata)
    THEN response_text \o CitationBlock(candidate.url_context_metadata)
    ELSE response_text

\* (faulty variant: the MODEL turn is stored after the citation block is added)
StoreAndReturn_CitationStored(history, candidate) ==
    LET loop == ExtractText(candidate.content.parts.v, 1, <<>>) IN
    IF loop.exc # NoExc THEN Raise(history, loop.exc)
    ELSE Return(add_model_message(history, WithCitation(candidate, loop.text)), 144,
                WithCitation(candidate, loop.text))

\* lines 130-144: extract, store the MODEL turn, then decorate the return value
StoreAndReturn(history, candidate) ==
    LET loop == ExtractText(candidate.content.parts.v, 1, <<>>) IN
    IF loop.exc # NoExc THEN Raise(history, loop.exc)
    ELSE Return(add_model_message(history, loop.text), 144, WithCitation(candidate, loop.text))

\* (faulty variant: the third check reuses the message of the second)
ProcessResponse_CopyPaste(history, response) ==
    IF ~Truthy(response) \/ ~HasAttr(response, "candidates") \/ ~Truthy(response.candidates)
    THEN Return(history, 117, NoValidResponseMsg)
    ELSE LET candidate == response.candidates.v[1] IN
         IF ~HasAttr(candidate, "content") \/ ~Truthy(candidate.content)
         THEN Return(history, 123, NoContentMsg)
         ELSE IF ~HasAttr(candidate.content, "parts") \/ ~Truthy(candidate.content.parts)
              THEN Return(history, 128, NoContentMsg)
              ELSE StoreAndReturn(history, candidate)

\* lines 111-144: the part of the try block after the provider has returned
ProcessResponse(history, response) ==
    IF ~Truthy(response) \/ ~HasAttr(response, "candidates") \/ ~Truthy(response.candidates)
    THEN Return(history, 117, NoValidResponseMsg)
    ELSE LET candidate == response.candidates.v[1] IN
         IF ~HasAttr(candidate, "content") \/ ~Truthy(candidate.content)
         THEN Return(history, 123, NoContentMsg)
         ELSE IF ~HasAttr(candidate.content, "parts") \/ ~Truthy(candidate.content.parts)
              THEN Return(history, 128, NoPartsMsg)
              ELSE StoreAndReturn(history, candidate)

\* (faulty variant: a raising provider call pops the USER turn again)
TryBlock_Rollback(history, result) ==
    IF result.t = "raise" THEN Raise(SubSeq(history, 1, Len(history) - 1), result.exc)
    ELSE ProcessResponse(history, result.response)

\* lines 98-144: the try block, given what the provider call did
TryBlock(history, result) ==
    IF result.t = "raise" THEN Raise(history, result.exc)
    ELSE ProcessResponse(history, result.response)

\* (faulty variant: the error message is also stored as a MODEL turn)
ExceptClause_Stores(res) ==
    IF res.exc = NoExc THEN res
    ELSE IF ExceptExceptionMatches(res.exc)
         THEN Return(add_model_message(res.history, ErrorPrefix \o StrOfExc(res.exc)), 149,
                     ErrorPrefix \o StrOfExc(res.exc))
         ELSE res

\* lines 146-149: except Exception as e: return f"Error generating response: {str(e)}"
ExceptClause(res) ==
    IF res.exc = NoExc THEN res
    ELSE IF ExceptExceptionMatches(res.exc)
         THEN Return(res.history, 149, ErrorPrefix \o StrOfExc(res.exc))
         ELSE res

\* (faulty variant: only the newest turn is sent)
RequestContents_LastTurn(history) == <<history[Len(history)]>>
\* line 104: contents=self.conversation_history
RequestContents(history) == history

(* ------------------------------- state --------------------------------- *)
VARIABLES
    api_key,               \* API_KEY is set (line 15)
    pc,                    \* where main() is
    conversation_history,  \* self.conversation_history
    user_message,          \* the argument of the running / last generate_response
    entry,                 \* conversation_history on entry to that call
    result,                \* what the provider call of that call did
    contents,              \* the contents= argument of the last provider call
    ret,                   \* what that call returned (None while it runs)
    retLine,               \* the source line of the return statement it took
    submits,               \* generate_response calls started
    calls,                 \* provider calls made
    runBase,               \* conversation_history before the current run of failing calls
    runInputs              \* the inputs of the current run of failing calls

vars == <<api_key, pc, conversation_history, user_message, entry, result, contents,
          ret, retLine, submits, calls, runBase, runInputs>>

Init ==
    /\ api_key \in BOOLEAN
    /\ pc = "start"
    /\ conversation_history = <<>>
    /\ user_message = <<>>
    /\ entry = <<>>
    /\ result = Pending
    /\ contents = <<>>
    /\ ret = None
    /\ retLine = 0
    /\ submits = 0
    /\ calls = 0
    /\ runBase = <<>>
    /\ runInputs = <<>>

\* the provider returned a well-formed result: the three checks of lines 114-128 pass
WellFormed(response) ==
    /\ response.t = "obj"
    /\ response.candidates.t = "list" /\ Len(response.candidates.v) >= 1
    /\ response.candidates.v[1].content.t = "obj"
    /\ response.candidates.v[1].content.parts.t = "list"
    /\ Len(response.candidates.v[1].content.parts.v) >= 1

\* a fragment of the first candidate carries a text that is not a string
BadFragment(response) ==
    \E i \in 1..Len(response.candidates.v[1].content.parts.v) :
        response.candidates.v[1].content.parts.v[i].text.t = "none"

\* a failing call: the provider raised, or returned a malformed result (one that fails a
\* check, or that carries a fragment whose text is not a string)
Failing(r) ==
    \/ r.t = "raise"
    \/ r.t = "return" /\ (~WellFormed(r.response) \/ BadFragment(r.response))

(* ------------------------------ actions -------------------------------- *)
\* lines 19-21 and 180-182: no credential, the constructor raises ValueError
ConstructNoKey ==
    /\ pc = "start" /\ ~api_key
    /\ pc' = "config_error"
    /\ UNCHANGED <<api_key, conversation_history, user_message, entry, result, contents,
                   ret, retLine, submits, calls, runBase, runInputs>>

\* lines 18-73: __init__ with a credential
Construct ==
    /\ pc = "start" /\ api_key
    /\ conversation_history' =
           add_model_message(add_user_message(<<>>, initial_instructions), acknowledgement)
    /\ runBase' = conversation_history'
    /\ pc' = "loop"
    /\ UNCHANGED <<api_key, user_message, entry, result, contents, ret, retLine,
                   submits, calls, runInputs>>

\* lines 168-173: an exit command ends the loop
InputExit(raw) ==
    /\ pc = "loop"
    /\ Lower(Strip(raw)) \in ExitCommands
    /\ pc' = "exited"
    /\ UNCHANGED <<api_key, conversation_history, user_message, entry, result, contents,
                   ret, retLine, submits, calls, runBase, runInputs>>

\* lines 168-177 and 96: any other line enters generate_response, which appends the USER turn
InputSubmit(raw) ==
    /\ pc = "loop"
    /\ Lower(Strip(raw)) \notin ExitCommands
    /\ Len(conversation_history) + 2 <= MaxTurns
    /\ user_message' = Strip(raw)
    /\ entry' = conversation_history
    /\ conversation_history' = add_user_message(conversation_history, Strip(raw))
    /\ result' = Pending
    /\ ret' = None
    /\ retLine' = 0
    /\ submits' = submits + 1
    /\ pc' = "call"
    /\ UNCHANGED <<api_key, contents, calls, runBase, runInputs>>

\* lines 102-109: the provider is called with the whole history and returns a result
ProviderReturns(response) ==
    /\ pc = "call"
    /\ contents' = RequestContents(conversation_history)
    /\ calls' = calls + 1
    /\ result' = Returned(response)
    /\ pc' = "process"
    /\ UNCHANGED <<api_key, conversation_history, user_message, entry, ret, retLine,
                   submits, runBase, runInputs>>

\* lines 102-109: the provider is called with the whole history and raises
ProviderRaises(e) ==
    /\ pc = "call"
    /\ contents' = RequestContents(conversation_history)
    /\ calls' = calls + 1
    /\ result' = Raised(e)
    /\ pc' = "process"
    /\ UNCHANGED <<api_key, conversation_history, user_message, entry, ret, retLine,
                   submits, runBase, runInputs>>

\* lines 111-149 and 178: the rest of generate_response, then main prints and loops
Finish ==
    /\ pc = "process"
    /\ LET res == ExceptClause(TryBlock(conversation_history, result)) IN
       /\ conversation_history' = res.history
       /\ ret' = res.ret
       /\ retLine' = res.line
       /\ pc' = IF res.exc = NoExc THEN "loop" ELSE "aborted"
       /\ IF Failing(result)
          THEN /\ runInputs' = Append(runInputs, user_message)
               /\ UNCHANGED runBase
          ELSE /\ runInputs' = <<>>
               /\ runBase' = res.history
    /\ UNCHANGED <<api_key, user_message, entry, result, contents, submits, calls>>

Next ==
    \/ ConstructNoKey
    \/ Construct
    \/ \E raw \in RawInputs : InputExit(raw)
    \/ \E raw \in RawInputs : InputSubmit(raw)
    \/ \E response \in Responses : ProviderReturns(response)
    \/ \E e \in ProviderExceptions : ProviderRaises(e)
    \/ Finish

Spec == Init /\ [][Next]_vars

(* ------------------------- vocabulary of the claims -------------------- *)
\* s is a prefix of t
IsPrefix(s, t) == Len(s) <= Len(t) /\ SubSeq(t, 1, Len(s)) = s

\* turn is a turn of the given role holding exactly the given text
IsTurn(turn, role, text) == turn.role = role /\ turn.parts = <<[text |-> text]>>

\* the transcript after the running / last submit is the one before it plus one USER turn
OnlyUserAppended ==
    /\ Len(conversation_history) = Len(entry) + 1
    /\ IsPrefix(entry, conversation_history)
    /\ IsTurn(conversation_history[Len(entry) + 1], "user", user_message)

\* the submit has returned to the loop
Submitted == pc = "loop" /\ submits > 0

\* the first candidate of a well-formed result, and its fragments
FirstCandidate == result.response.candidates.v[1]
Fragments == FirstCandidate.content.parts.v

\* which validation check a malformed result fails
NoCandidates(response) ==
    response.t = "none" \/ response.candidates.t # "list" \/ response.candidates.v = <<>>
NoContent(response) ==
    ~NoCandidates(response) /\ response.candidates.v[1].content.t # "obj"
NoFragments(response) ==
    /\ ~NoCandidates(response) /\ ~NoContent(response)
    /\ \/ response.candidates.v[1].content.parts.t # "list"
       \/ response.candidates.v[1].content.parts.v = <<>>

\* the texts of the fragments, joined in fragment order without a separator
\* (a fragment that has no text attribute has nothing to contribute)
RECURSIVE JoinTexts(_)
JoinTexts(fragments) ==
    IF fragments = <<>> THEN <<>>
    ELSE (IF Head(fragments).text.t = "str" THEN Head(fragments).text.v ELSE <<>>)
         \o JoinTexts(Tail(fragments))

\* one USER turn per text, in order
UserTurnsOf(texts) == [i \in 1..Len(texts) |-> [role |-> "user", parts |-> <<[text |-> texts[i]]>>]]

(* ------------------------------- claims -------------------------------- *)
\* C1: once the agent is constructed the transcript starts with the bootstrap pair (USER
\* instruction block, MODEL acknowledgement), it holds exactly that pair before the first
\* submit, and the instruction turn occurs at no other position whatever submits follow.
C1_BootstrapPairFirstAndOnce ==
    /\ pc \in {"start", "config_error"} => conversation_history = <<>>
    /\ pc \notin {"start", "config_error"} =>
         /\ Len(conversation_history) >= 2
         /\ IsTurn(conversation_history[1], "user", initial_instructions)
         /\ IsTurn(conversation_history[2], "model", acknowledgement)
         /\ submits = 0 => Len(conversation_history) = 2
         /\ \A i \in 3..Len(conversation_history) :
                ~IsTurn(conversation_history[i], "user", initial_instructions)

C1_Witness ==
    /\ pc = "loop" /\ submits = 3 /\ retLine = 144
    /\ Len(conversation_history) = 6
    /\ IsTurn(conversation_history[1], "user", initial_instructions)

\* C2: whenever the provider returned a result that passes the three validation checks,
\* the submit appended exactly two turns: a USER turn with the input, then a MODEL turn.
C2_WellFormedResultAppendsTwo ==
    (Submitted /\ result.t = "return" /\ WellFormed(result.response)) =>
        /\ Len(conversation_history) = Len(entry) + 2
        /\ IsPrefix(entry, conversation_history)
        /\ IsTurn(conversation_history[Len(entry) + 1], "user", user_message)
        /\ conversation_history[Len(entry) + 2].role = "model"

\* C3: whenever the provider call raised, the submit appended only the USER turn and
\* returned "Error generating response: " followed by the cause; that text is in no turn.
C3_RaiseAppendsUserOnly ==
    (Submitted /\ result.t = "raise") =>
        /\ OnlyUserAppended
        /\ ret = Str(<<"Error generating response: ">> \o result.exc.msg)
        /\ \A i \in 1..Len(conversation_history) :
               conversation_history[i].parts[1].text # ret.v

C3_Witness ==
    /\ Submitted /\ result.t = "raise"
    /\ Len(entry) = 4 /\ entry[4].role = "model"

\* C4: whenever the provider returned a malformed result, the returned string is the message
\* of the first check that fails (candidates, then content, then parts) and only the USER
\* turn was appended.
C4_MalformedResultMessages ==
    (Submitted /\ result.t = "return" /\ ~WellFormed(result.response)) =>
        /\ OnlyUserAppended
        /\ NoCandidates(result.response) =>
               ret = Str(<<"No valid response received from Gemini API">>)
        /\ NoContent(result.response) =>
               ret = Str(<<"No content in response candidate">>)
        /\ NoFragments(result.response) =>
               ret = Str(<<"No parts in content">>)
        /\ NoCandidates(result.response) \/ NoContent(result.response)
               \/ NoFragments(result.response)

C4_Witness ==
    /\ Submitted /\ result.t = "return"
    /\ NoFragments(result.response)
    /\ ret = Str(<<"No parts in content">>)

\* C5: a submit whose result is well formed and whose fragments carry no non-string text
\* succeeds, and a successful submit stored a MODEL turn whose text is the texts of the first
\* candidate's fragments joined in order, with which the returned string begins.
C5_StoredTextIsJoinedFragments ==
    /\ (Submitted /\ result.t = "return" /\ WellFormed(result.response)
            /\ ~BadFragment(result.response)) => retLine = 144
    /\ (Submitted /\ retLine = 144) =>
         /\ Len(conversation_history) = Len(entry) + 2
         /\ IsTurn(conversation_history[Len(conversation_history)], "model", JoinTexts(Fragments))
         /\ ret.t = "str"
         /\ IsPrefix(JoinTexts(Fragments), ret.v)

C5_Witness ==
    /\ Submitted /\ retLine = 144
    /\ Len(result.response.candidates.v) = 2
    /\ Len(Fragments) = 2
    /\ Fragments[1].text = Str(<<"A">>) /\ Fragments[2].text = Str(<<"B">>)
    /\ IsTurn(conversation_history[Len(conversation_history)], "model", <<"A", "B">>)

\* C6: generate_response never lets a failure escape: the loop is never aborted by an
\* exception, and every finished submit has returned a string and is back at the prompt.
C6_SubmitAlwaysReturnsString ==
    /\ pc # "aborted"
    /\ (pc \in {"loop", "exited"} /\ submits > 0) => (ret.t = "str" /\ retLine # 0)
    /\ pc \in {"call", "process"} => ret = None

C6_Witness ==
    /\ Submitted /\ retLine = 149
    /\ result.t = "return" /\ WellFormed(result.response) /\ BadFragment(result.response)

\* C7: after a run of consecutive failing submits the transcript is the transcript from before
\* the run followed by one USER turn per input, in submission order, and the next provider
\* call is sent exactly those unanswered turns followed by the new USER turn.
C7_FailingRunAppendsUserTurns ==
    /\ pc \in {"loop", "exited"} =>
          conversation_history = runBase \o UserTurnsOf(runInputs)
    /\ pc = "process" =>
          contents = runBase \o UserTurnsOf(Append(runInputs, user_message))

C7_Witness ==
    /\ pc = "process"
    /\ Len(runInputs) = 2 /\ runInputs[1] # runInputs[2]
    /\ Len(runBase) = 2

\* C8: the transcript is append-only: every step leaves the old transcript as a prefix of
\* the new one.
C8_AppendOnly == [][IsPrefix(conversation_history, conversation_history')]_vars

C8_Witness ==
    /\ Submitted /\ submits = 2
    /\ Len(conversation_history) = 6

\* C9: a successful submit returns the stored MODEL text followed by the citation block when
\* the first candidate carries metadata, and exactly the stored MODEL text otherwise; the
\* stored text never holds the citation block; a first successful submit leaves 4 turns.
C9_CitationOnlyInReturnValue ==
    (Submitted /\ retLine = 144) =>
        LET stored == conversation_history[Len(conversation_history)].parts[1].text
            meta == FirstCandidate.url_context_metadata
        IN /\ conversation_history[Len(conversation_history)].role = "model"
           /\ \A i \in 1..Len(stored) : stored[i] # "[URL Sources: "
           /\ meta.t = "meta" =>
                ret = Str(stored \o <<"\n", "\n", "[URL Sources: ">> \o StrOfMeta(meta) \o <<"]">>)
           /\ meta.t # "meta" => ret = Str(stored)
           /\ submits = 1 => Len(conversation_history) = 4

C9_Witness ==
    /\ Submitted /\ retLine = 144
    /\ FirstCandidate.url_context_metadata.t = "meta"
    /\ conversation_history[Len(conversation_history)].parts[1].text = <<"A", "B">>

\* C10: every submit makes exactly one provider call, made after its USER turn is appended and
\* before any MODEL turn is: the call is sent the whole transcript, which starts with the
\* bootstrap pair and ends with the new USER turn; constructing the agent makes no call.
C10_OneCallWithFullTranscript ==
    /\ calls = IF pc = "call" THEN submits - 1 ELSE submits
    /\ submits = 0 => contents = <<>>
    /\ pc = "process" => contents = conversation_history
    /\ (pc \in {"process", "loop", "exited"} /\ submits > 0) =>
         /\ contents = Append(entry, [role |-> "user", parts |-> <<[text |-> user_message]>>])
         /\ IsPrefix(contents, conversation_history)
         /\ IsTurn(contents[1], "user", initial_instructions)
         /\ IsTurn(contents[2], "model", acknowledgement)
         /\ \A i \in (Len(entry) + 1)..Len(contents) : contents[i].role = "user"

C10_Witness ==
    /\ Submitted /\ submits = 2 /\ calls = 2
    /\ retLine = 144
    /\ Len(contents) = 5 /\ Len(conversation_history) = 6

====
